---- MODULE Spec2Model ----
(***************************************************************************)
(* Model of the StreamDownloader backend (backend/app/main.py and          *)
(* backend/app/download_service.py): the download-job state machine        *)
(* (_run_download_job), its progress callback and progress hook, the file  *)
(* classifier, the packaging policy, the process-wide result table         *)
(* (_job_results), the result/status endpoints and the shutdown cleanup.   *)
(*                                                                         *)
(* The user-visible messages of the program are Chinese string literals;   *)
(* they are written here as ASCII stand-ins, one definition per literal.   *)
(* Python's None is the string "None" for string-valued fields.            *)
(* Job ids are handed out by the data store and are never reused.          *)
(* Users, authorization and the og_title / og_description columns take no  *)
(* part in the job state machine and are left out.  A request that is      *)
(* refused changes no state; its response is the value of download_status  *)
(* or ResultResponse in the state it is made in.                           *)
(***************************************************************************)
EXTENDS Integers, Sequences, FiniteSets, TLC

\* ---------------------------------------------------------------- bounds
MaxJobs == 1
MaxDuplicates == 1
MaxReuses == 1

JobIds == 1..MaxJobs

None == "None"

\* ------------------------------------------------------ message literals
MSG_QUEUED == "queued"
MSG_PREPARING == "preparing download"
MSG_DONE == "done"
MSG_NO_VIDEO == "no video file obtained"
MSG_NO_SUBS == "no subtitle file obtained"
MSG_DOWNLOADING == "downloading"
MSG_MERGING == "merging files"
MSG_MISSAV_LOAD == "cannot load missav page: "
MSG_MISSAV_PARSE == "cannot parse video link from missav page (page structure may have changed)"
MSG_NO_FILES == "no file produced"
MSG_NO_INFO == "cannot get video info"
DETAIL_NOT_FOUND == "download job not found"
DETAIL_NOT_DONE == "download not finished or failed"
DETAIL_EXPIRED == "file expired, download again"
DETAIL_NO_FILE == "file does not exist"

\* ----------------------------------------------------------- exceptions
\* An exception is its class and its arguments' text; str(e) is the text.
Exc(type, msg) == [type |-> type, msg |-> msg]
NoExc == Exc(None, "")
str(e) == e.msg

\* DownloadCancelled is raised without arguments: its str() is empty.
DownloadCancelled == Exc("DownloadCancelled", "")

\* Messages of the errors the delegate (yt-dlp) raises during a transfer.
TransferErrorTexts == {"HTTP Error 403: Forbidden", "Requested format is not available"}
TransferErrors == {Exc("DownloadError", t) : t \in TransferErrorTexts}

\* Errors of the page fetch (urlopen) of a missav page.
FetchErrorTexts == {"timed out"}

\* ------------------------------------------------------------------ text
\* A text (page markup, packed script, url) is a sequence of lexemes: a
\* lexeme is a maximal run of word characters (letters, digits, underscore)
\* or one single character that is not a word character.  White space
\* between lexemes is the lexeme " ".
Punctuation ==
  {"'", "\"", "\\", "|", ",", ";", "(", ")", "{", "}", "=", ":", ".", "/",
   "-", "<", ">", "?", "*", " ", "%"}
IsWord(x) == x \notin Punctuation

SetMin(S) == CHOOSE x \in S : \A y \in S : x <= y
SetMax(S) == CHOOSE x \in S : \A y \in S : x >= y

\* s[i..] as a sequence.
From(s, i) == SubSeq(s, i, Len(s))

\* str.find: the first position >= from at which pat occurs in s, 0 if none.
Find(s, pat, from) ==
  LET C == {i \in from..(Len(s) - Len(pat) + 1) : SubSeq(s, i, i + Len(pat) - 1) = pat}
  IN IF C = {} THEN 0 ELSE SetMin(C)

\* The first position of the element x in s, 0 if none (list.index, 1-based).
IndexOf(s, x) ==
  LET C == {i \in 1..Len(s) : s[i] = x}
  IN IF C = {} THEN 0 ELSE SetMin(C)

\* "".join(s[lo..hi]): the lexemes written one after the other.
RECURSIVE ConcatRange(_, _, _)
ConcatRange(s, lo, hi) ==
  IF lo > hi THEN ""
  ELSE IF lo = hi THEN s[lo]
  ELSE ConcatRange(s, lo, (lo + hi) \div 2) \o ConcatRange(s, (lo + hi) \div 2 + 1, hi)
Concat(s) == ConcatRange(s, 1, Len(s))

\* sep.join(ws) for a list ws of strings.
RECURSIVE Join(_, _)
Join(ws, sep) ==
  IF ws = << >> THEN ""
  ELSE IF Len(ws) = 1 THEN ws[1]
  ELSE ws[1] \o sep \o Join(Tail(ws), sep)

\* s[::-1]
Reverse(s) == [i \in 1..Len(s) |-> s[Len(s) + 1 - i]]

\* The k-th smallest element of the set S of numbers.
Nth(S, k) == CHOOSE i \in S : Cardinality({j \in S : j < i}) = k - 1

\* str.split(sep) on texts: the list of the texts between the occurrences of
\* the text sep (no separator used here can overlap itself).
Split(s, sep) ==
  LET occ == {i \in 1..(Len(s) - Len(sep) + 1) : SubSeq(s, i, i + Len(sep) - 1) = sep}
      n == Cardinality(occ)
  IN [k \in 1..(n + 1) |->
        SubSeq(s, IF k = 1 THEN 1 ELSE Nth(occ, k - 1) + Len(sep),
                  IF k = n + 1 THEN Len(s) ELSE Nth(occ, k) - 1)]

\* text.split("|") as the list of the strings between the pipes.
Words(s) == LET ps == Split(s, <<"|">>) IN [i \in 1..Len(ps) |-> Concat(ps[i])]

\* ws[a:b] of Python for a list ws and 0-based bounds, negative bounds
\* counting from the end.
PySlice(ws, a, b) ==
  LET n == Len(ws)
      lo == IF a < 0 THEN (IF a + n < 0 THEN 0 ELSE a + n) ELSE (IF a > n THEN n ELSE a)
      hi == IF b < 0 THEN (IF b + n < 0 THEN 0 ELSE b + n) ELSE (IF b > n THEN n ELSE b)
  IN SubSeq(ws, lo + 1, hi)

\* ws[k] of Python is defined (no IndexError) for the 0-based index k.
PyIndexOk(ws, k) == k < Len(ws) /\ k >= -Len(ws)
\* ws[k] of Python, a negative index counting from the end.
PyIndex(ws, k) == IF k < 0 THEN ws[k + Len(ws) + 1] ELSE ws[k + 1]

\* --------------------------------------------------------------- unpacker
\* The single characters the packed script uses as codes, in index order.
PackCodes == <<"0", "1", "2", "3", "4", "5", "6", "7", "8", "9", "a", "b", "c", "d", "e">>

\* repl of _unpack_missav_packed_js for the matched character c: the entry
\* of parts the character addresses, or c itself when there is none; parts
\* is the list of the texts between the pipes of the dictionary.
repl(c, parts) ==
  LET i == IndexOf(PackCodes, c) - 1
  IN IF i < 0 THEN <<c>>
     ELSE IF i < Len(parts) THEN parts[i + 1] ELSE <<c>>

\* The texts ts[lo..hi] written one after the other.
RECURSIVE FlattenRange(_, _, _)
FlattenRange(ts, lo, hi) ==
  IF lo > hi THEN << >>
  ELSE IF lo = hi THEN ts[lo]
  ELSE FlattenRange(ts, lo, (lo + hi) \div 2) \o FlattenRange(ts, (lo + hi) \div 2 + 1, hi)

\* The lexeme at position i of packed matches \b([0-9a-e])\b: it is one code
\* character with no word character next to it.
IsolatedCode(packed, i) ==
  /\ IndexOf(PackCodes, packed[i]) # 0
  /\ i = 1 \/ ~IsWord(packed[i - 1])
  /\ i = Len(packed) \/ ~IsWord(packed[i + 1])

\* Mutant of _unpack_missav_packed_js: a code character is replaced
\* whatever stands next to it.
_unpack_missav_packed_js_any(packed, dict_str) ==
  LET Subst(parts) ==
        FlattenRange([i \in 1..Len(packed) |->
                        IF IndexOf(PackCodes, packed[i]) # 0 THEN repl(packed[i], parts)
                        ELSE <<packed[i]>>], 1, Len(packed))
  IN Subst(Split(dict_str, <<"|">>))

\* Mutant of _unpack_missav_packed_js: a character whose index is beyond
\* the dictionary is dropped.
_unpack_missav_packed_js_drop(packed, dict_str) ==
  LET Subst(parts) ==
        FlattenRange([i \in 1..Len(packed) |->
                        IF IsolatedCode(packed, i)
                          THEN (IF repl(packed[i], parts) = <<packed[i]>> THEN << >>
                                ELSE repl(packed[i], parts))
                          ELSE <<packed[i]>>], 1, Len(packed))
  IN Subst(Split(dict_str, <<"|">>))

\* re.sub(r"\b([0-9a-e])\b", repl, packed) with parts = dict_str.split("|").
_unpack_missav_packed_js(packed, dict_str) ==
  LET Subst(parts) ==
        FlattenRange([i \in 1..Len(packed) |->
                        IF IsolatedCode(packed, i) THEN repl(packed[i], parts)
                        ELSE <<packed[i]>>], 1, Len(packed))
  IN Subst(Split(dict_str, <<"|">>))

\* ------------------------------------------------------ manifest extractor
\* The characters [^\s'"<>] of the url patterns.
UrlChar(x) == x \notin {" ", "'", "\"", "<", ">"}

\* The end of the run of url characters that starts at position i of s.
RunEnd(s, i) ==
  LET stops == {k \in i..Len(s) : ~UrlChar(s[k])}
  IN IF stops = {} THEN Len(s) ELSE SetMin(stops) - 1

\* Position i of s starts "http://" or "https://".
SchemeAt(s, i) ==
  /\ i + 3 <= Len(s)
  /\ s[i] \in {"http", "https"}
  /\ s[i + 1] = ":" /\ s[i + 2] = "/" /\ s[i + 3] = "/"

\* The positions k of ".m3u8" (the "." at k, "m3u8" at k + 1) that can end
\* a url starting at i: at least one character lies between "//" and ".".
M3u8Ends(s, i) ==
  {k \in (i + 5)..(RunEnd(s, i + 4) - 1) : s[k] = "." /\ s[k + 1] = "m3u8"}

\* re.search(r"https?://[^\s'\"<>]+\.m3u8", s): the leftmost match, greedy;
\* None when there is none.
SearchM3u8(s) ==
  LET starts == {i \in 1..Len(s) : SchemeAt(s, i) /\ M3u8Ends(s, i) # {}}
  IN IF starts = {} THEN None
     ELSE LET i == SetMin(starts)
          IN Concat(SubSeq(s, i, SetMax(M3u8Ends(s, i)) + 1))

\* The end of a quoted body (?:[^'\\]|\\.)* that starts at position i: the
\* position of the first quote that no backslash escapes, 0 when the text
\* ends first.
RECURSIVE BodyEnd(_, _)
BodyEnd(s, i) ==
  IF i > Len(s) THEN 0
  ELSE IF s[i] = "'" THEN i
  ELSE IF s[i] = "\\" THEN (IF i + 1 > Len(s) THEN 0 ELSE BodyEnd(s, i + 2))
  ELSE BodyEnd(s, i + 1)

\* The position of the next quote at or after i, 0 if none.
NextQuote(s, i) == Find(s, <<"'">>, i)

\* White space is skipped where the patterns allow \s*.
RECURSIVE SkipSpace(_, _)
SkipSpace(s, i) == IF i <= Len(s) /\ s[i] = " " THEN SkipSpace(s, i + 1) ELSE i

\* The lexeme x at position i of s: the position after it; 0 when it is
\* not there or i is 0 (an earlier part of the pattern failed).
Tok(s, i, x) == IF i > 0 /\ i <= Len(s) /\ s[i] = x THEN i + 1 ELSE 0
\* \s* at position i.
Sp(s, i) == IF i = 0 THEN 0 ELSE SkipSpace(s, i)

\* \d+ at position i: a number lexeme.
IsNumber(x) == x \in {"0", "1", "2", "3", "15", "16", "62"}
Num(s, i) == IF i > 0 /\ i <= Len(s) /\ IsNumber(s[i]) THEN i + 1 ELSE 0

\* ,\s*\d+\s*,\s*\d+\s*,\s* at position i: the position after it, 0 if absent.
Counts(s, i) ==
  LET c1 == Sp(s, Tok(s, i, ","))
      n1 == Sp(s, Num(s, c1))
      c2 == Sp(s, Tok(s, n1, ","))
      n2 == Sp(s, Num(s, c2))
  IN Sp(s, Tok(s, n2, ","))

\* The text d matches [^']+(?:\|[^']+)+ : no quote, and a pipe that is
\* neither its first nor its last character.
IsDict(d) ==
  /\ \A i \in 1..Len(d) : d[i] # "'"
  /\ \E i \in 2..(Len(d) - 1) : d[i] = "|"

\* \.split\s*\(\s*'\|'\s*\) at position i: the position after it, 0 if absent.
SplitCall(s, i) ==
  LET open == Sp(s, Tok(s, Sp(s, Tok(s, Tok(s, i, "."), "split")), "("))
      sep == Sp(s, Tok(s, Tok(s, Tok(s, open, "'"), "|"), "'"))
  IN Tok(s, sep, ")")

\* The quoted dictionary 'm3u8|...'.split('|') at position j of s: the
\* position of its closing quote, 0 when the pattern
\* 'm3u8\|([^']+(?:\|[^']+)+)'\.split\s*\(\s*'\|'\s*\) does not match at j.
DictAt(s, j) ==
  LET Closed(c, q) ==
        IF q # 0 /\ IsDict(SubSeq(s, c, q - 1)) /\ SplitCall(s, q + 1) # 0 THEN q ELSE 0
      Opened(c) == Closed(c, IF c = 0 THEN 0 ELSE NextQuote(s, c))
  IN Opened(Tok(s, Tok(s, Tok(s, j, "'"), "m3u8"), "|"))

\* The main pattern of _extract_missav_m3u8_from_packed at position i of s:
\* }('packed',n,n,'dict'.split('|') with its two groups.
PackedAt(s, i) ==
  LET Groups(b, e, c, q) ==
        IF q # 0 /\ IsDict(SubSeq(s, c, q - 1)) /\ SplitCall(s, q + 1) # 0
          THEN [ok |-> TRUE, packed |-> SubSeq(s, b, e - 1), dict_str |-> SubSeq(s, c, q - 1)]
          ELSE [ok |-> FALSE, packed |-> << >>, dict_str |-> << >>]
      Dict(b, e, c) == Groups(b, e, c, IF c = 0 THEN 0 ELSE NextQuote(s, c))
      Body(b, e) == Dict(b, e, IF e = 0 THEN 0 ELSE Tok(s, Counts(s, e + 1), "'"))
      Opened(b) == Body(b, IF b = 0 THEN 0 ELSE BodyEnd(s, b))
  IN Opened(Tok(s, Sp(s, Tok(s, Sp(s, Tok(s, i, "}")), "(")), "'"))

\* The fallback pattern at position i of s: 'packed';,n,n,'m3u8|...'.split('|')
\* whose one group is the body with its closing quote.
FallbackAt(s, i) ==
  LET Group(b, e, q) ==
        IF q # 0 /\ SplitCall(s, q + 1) # 0
          THEN [ok |-> TRUE, packed |-> SubSeq(s, b, e)] ELSE [ok |-> FALSE, packed |-> << >>]
      Dict(b, e, c) == Group(b, e, IF c = 0 THEN 0 ELSE NextQuote(s, c))
      Body(b, e) ==
        Dict(b, e, IF e = 0 THEN 0
                   ELSE Tok(s, Tok(s, Tok(s, Counts(s, Sp(s, Tok(s, e + 1, ";"))), "'"), "m3u8"), "|"))
      Opened(b) == Body(b, IF b = 0 THEN 0 ELSE BodyEnd(s, b))
  IN Opened(Tok(s, i, "'"))

_extract_missav_m3u8_from_packed(webpage) ==
  LET Unpacked(packed, dict_str) ==
        SearchM3u8(_unpack_missav_packed_js(packed, dict_str))
      Main(m) == Unpacked(m.packed, m.dict_str)
      WithDict(f, dict_str) ==
        IF IndexOf(dict_str, "https") = 0 THEN None
        ELSE Unpacked(FallbackAt(webpage, f).packed, dict_str)
      DictFrom(f, ds) ==
        IF ds = {} THEN None
        ELSE WithDict(f, SubSeq(webpage, SetMin(ds) + 1, DictAt(webpage, SetMin(ds)) - 1))
      Fallback(fs) ==
        IF fs = {} THEN None
        ELSE DictFrom(SetMin(fs), {j \in SetMin(fs)..Len(webpage) : DictAt(webpage, j) # 0})
      Search(ms) ==
        IF ms # {} THEN Main(PackedAt(webpage, SetMin(ms)))
        ELSE Fallback({i \in 1..Len(webpage) : FallbackAt(webpage, i).ok})
  IN Search({i \in 1..Len(webpage) : PackedAt(webpage, i).ok})

\* Mutant of _extract_missav_m3u8_from_dict_only: com may stand right
\* before https.
_extract_missav_m3u8_from_dict_only_nogap(webpage) ==
  LET Assemble(parts, idx_https, idx_com) ==
        IF idx_https < 0 \/ IndexOf(parts, "playlist") = 0 THEN None
        ELSE IF idx_com < 0 \/ idx_com >= idx_https THEN None
        ELSE IF Len(parts) >= 6
          THEN "https://" \o Join(Reverse(PySlice(parts, idx_com, idx_https)), ".")
               \o "/" \o Join(Reverse(PySlice(parts, 1, 6)), "-") \o "/playlist.m3u8"
        ELSE None
      OfParts(parts) == Assemble(parts, IndexOf(parts, "https") - 1, IndexOf(parts, "com") - 1)
      OfDict(j) == OfParts(Words(SubSeq(webpage, j + 1, DictAt(webpage, j) - 1)))
      First(ds) == IF ds = {} THEN None ELSE OfDict(SetMin(ds))
  IN First({j \in 1..Len(webpage) : DictAt(webpage, j) # 0})

_extract_missav_m3u8_from_dict_only(webpage) ==
  LET Assemble(parts, idx_https, idx_com) ==
        IF idx_https < 0 \/ IndexOf(parts, "playlist") = 0 THEN None
        ELSE IF idx_com < 0 \/ idx_com >= idx_https \/ idx_https - idx_com < 2 THEN None
        ELSE IF Len(parts) >= 6
          THEN "https://" \o Join(Reverse(PySlice(parts, idx_com, idx_https)), ".")
               \o "/" \o Join(Reverse(PySlice(parts, 1, 6)), "-") \o "/playlist.m3u8"
        ELSE None
      OfParts(parts) == Assemble(parts, IndexOf(parts, "https") - 1, IndexOf(parts, "com") - 1)
      OfDict(j) == OfParts(Words(SubSeq(webpage, j + 1, DictAt(webpage, j) - 1)))
      First(ds) == IF ds = {} THEN None ELSE OfDict(SetMin(ds))
  IN First({j \in 1..Len(webpage) : DictAt(webpage, j) # 0})

\* Mutant of LegacyUrl: the five path words are joined in page order.
LegacyUrl_unreversed(webpage) ==
  LET Assemble(url_words, video_index) ==
        IF video_index < 0 THEN None
        ELSE IF ~PyIndexOk(url_words, video_index + 1) THEN None
        ELSE LET protocol == PyIndex(url_words, video_index - 1)
                 m3u8_url_path == Join(PySlice(url_words, 0, 5), "-")
                 base_url_path == Join(Reverse(PySlice(url_words, 5, video_index - 1)), ".")
                 video_format == PyIndex(url_words, video_index + 1)
             IN protocol \o "://" \o base_url_path \o "/" \o m3u8_url_path
                \o "/" \o video_format \o "/" \o PyIndex(url_words, video_index) \o ".m3u8"
      OfWords(url_words) == Assemble(url_words, IndexOf(url_words, "video") - 1)
      OfPieces(pieces) ==
        IF Len(pieces) < 2 THEN None
        ELSE OfWords(Words(Split(pieces[2], <<"|", "playlist", "|", "source">>)[1]))
  IN OfPieces(Split(webpage, <<"m3u8", "|">>))

\* Strategy 3 of _extract_missav_m3u8_and_title, the legacy delimited form;
\* None where the code leaves m3u8_url unset or catches IndexError.
LegacyUrl(webpage) ==
  LET Assemble(url_words, video_index) ==
        IF video_index < 0 THEN None
        ELSE IF ~PyIndexOk(url_words, video_index + 1) THEN None
        ELSE LET protocol == PyIndex(url_words, video_index - 1)
                 m3u8_url_path == Join(Reverse(PySlice(url_words, 0, 5)), "-")
                 base_url_path == Join(Reverse(PySlice(url_words, 5, video_index - 1)), ".")
                 video_format == PyIndex(url_words, video_index + 1)
             IN protocol \o "://" \o base_url_path \o "/" \o m3u8_url_path
                \o "/" \o video_format \o "/" \o PyIndex(url_words, video_index) \o ".m3u8"
      OfWords(url_words) == Assemble(url_words, IndexOf(url_words, "video") - 1)
      OfPieces(pieces) ==
        IF Len(pieces) < 2 THEN None
        ELSE OfWords(Words(Split(pieces[2], <<"|", "playlist", "|", "source">>)[1]))
  IN OfPieces(Split(webpage, <<"m3u8", "|">>))

\* webpage.replace("\\/", "/") on s[lo..hi]: every backslash that a slash
\* follows is dropped.
RECURSIVE UnescapeRange(_, _, _)
UnescapeRange(s, lo, hi) ==
  IF lo > hi THEN << >>
  ELSE IF lo = hi
    THEN (IF s[lo] = "\\" /\ lo < Len(s) /\ s[lo + 1] = "/" THEN << >> ELSE <<s[lo]>>)
  ELSE UnescapeRange(s, lo, (lo + hi) \div 2) \o UnescapeRange(s, (lo + hi) \div 2 + 1, hi)
Unescape(s) == UnescapeRange(s, 1, Len(s))

\* text.rstrip("\\")
RECURSIVE RStrip(_, _)
RStrip(s, x) ==
  IF s # << >> /\ s[Len(s)] = x THEN RStrip(SubSeq(s, 1, Len(s) - 1), x) ELSE s

\* Strategy 4: the first https?://[^\s"'<>]+\.m3u8[^\s"'<>]* of the page with
\* its escaped slashes undone, trailing backslashes removed.
GenericUrl(webpage) ==
  LET Search(normalized) ==
        LET starts == {i \in 1..Len(normalized) :
                         SchemeAt(normalized, i) /\ M3u8Ends(normalized, i) # {}}
        IN IF starts = {} THEN None
           ELSE Concat(RStrip(SubSeq(normalized, SetMin(starts),
                                     RunEnd(normalized, SetMin(starts) + 4)), "\\"))
  IN Search(Unescape(webpage))

\* The url part of _extract_missav_m3u8_and_title: the four strategies in
\* order, each tried only while no url has been found.
ExtractedUrl_dict_first(webpage) ==
  LET OrElse(m3u8_url, strategy) == IF m3u8_url # None THEN m3u8_url ELSE strategy
  IN OrElse(OrElse(OrElse(_extract_missav_m3u8_from_dict_only(webpage),
                          _extract_missav_m3u8_from_packed(webpage)),
                   LegacyUrl(webpage)),
            GenericUrl(webpage))

ExtractedUrl(webpage) ==
  LET OrElse(m3u8_url, strategy) == IF m3u8_url # None THEN m3u8_url ELSE strategy
  IN OrElse(OrElse(OrElse(_extract_missav_m3u8_from_packed(webpage),
                          _extract_missav_m3u8_from_dict_only(webpage)),
                   LegacyUrl(webpage)),
            GenericUrl(webpage))

\* ------------------------------------------------------------ page markup
\* "|".join(ws) as a text.
RECURSIVE Pipes(_)
Pipes(ws) ==
  IF ws = << >> THEN << >>
  ELSE IF Len(ws) = 1 THEN <<ws[1]>>
  ELSE <<ws[1], "|">> \o Pipes(Tail(ws))

\* '...'.split('|') around a word list.
QuotedDict(ws) == <<"'">> \o Pipes(ws) \o <<"'", ".", "split", "(", "'", "|", "'", ")">>

\* eval(function(p,a,c,k,e,d){return p}('packed',15,15,'dict'.split('|'),0,{}))
PackedEval(packed, ws) ==
  <<"eval", "(", "function", "(", "p", ",", "a", ",", "c", ",", "k", ",", "e", ",", "d", ")",
    "{", "return", " ", "p", "}", "(", "'">>
  \o packed \o <<"'", ",", "15", ",", "15", ",">> \o QuotedDict(ws)
  \o <<",", "0", ",", "{", "}", ")", ")">>

\* Dictionaries of the player script: index 0 is m3u8, 1..5 the parts of
\* the stream id, then the host in reverse, the scheme, and the file words.
DictSurrit ==
  <<"m3u8", "a1", "b2", "c3", "d4", "e5", "com", "surrit", "https", "video", "ts",
    "hls", "x", "y", "playlist", "source">>
DictEdge ==
  <<"m3u8", "f1", "g2", "h3", "i4", "j5", "com", "edge", "https", "video", "ts",
    "playlist", "source">>
DictNoPlaylist == <<"m3u8", "k1", "l2", "m3", "n4", "o5", "com", "surrit", "https", "poster">>

\* f=\'8://7.6/5-4-3-2-1/a/9.0\';  (the codes address DictSurrit)
PackedSource ==
  <<"f", "=", "\\", "'", "8", ":", "/", "/", "7", ".", "6", "/", "5", "-", "4", "-", "3",
    "-", "2", "-", "1", "/", "a", "/", "9", ".", "0", "\\", "'", ";">>
\* g=\'c.d\';  (no url after unpacking)
PackedNoUrl == <<"g", "=", "\\", "'", "c", ".", "d", "\\", "'", ";">>

FragPacked == PackedEval(PackedSource, DictSurrit)
FragPackedNoUrl == PackedEval(PackedNoUrl, DictEdge)
FragFallback ==
  <<"'">> \o PackedSource \o <<"'", ";", ",", "15", ",", "15", ",">> \o QuotedDict(DictSurrit)
FragDict == <<"k", "=">> \o QuotedDict(DictEdge) \o <<";">>
FragDictBad == <<"k", "=">> \o QuotedDict(DictNoPlaylist) \o <<";">>
FragLegacy ==
  Pipes(<<"m3u8", "1", "2", "3", "4", "5", "com", "surrit", "https", "video", "ts",
          "playlist", "source">>)
FragLegacyNoVideo == Pipes(<<"m3u8", "1", "2", "3", "4", "5", "com", "surrit", "https", "playlist", "source">>)
FragUrl ==
  <<"\"", "https", ":", "/", "/", "cdn", ".", "example", "/", "a", "/", "index", ".", "m3u8",
    "?", "t", "=", "1", "\"">>
FragUrlEscaped ==
  <<"\"", "https", ":", "\\", "/", "\\", "/", "cdn", ".", "example", "\\", "/", "b", ".", "m3u8", "\"">>
FragHtml == <<"<", "div", ">", "player", "<", "/", "div", ">">>

\* The legacy delimited form for path words ps, host words host (in reverse
\* order), a scheme and a format word.
LegacyFixture(ps, host, scheme, fmt) ==
  Pipes(<<"m3u8">> \o ps \o host \o <<scheme, "video", fmt, "playlist", "source">>)
LegacyShapes ==
  [ps : {<<"1", "2", "3", "4", "5">>, <<"a1", "b2", "c3", "d4", "e5">>},
   host : {<<"com", "surrit">>, <<"net", "cdn", "edge">>, <<"localhost">>},
   scheme : {"https", "http"},
   fmt : {"ts", "720p"}]
\* What may stand before and after the only marker of a page.
Before == {<< >>, FragHtml \o <<" ">>}
After == {<< >>, <<" ">> \o FragHtml}
LegacyPages ==
  {pre \o LegacyFixture(sh.ps, sh.host, sh.scheme, sh.fmt) \o post :
     sh \in LegacyShapes, pre \in Before, post \in After}

\* Quoted dictionaries of up to MaxTokens tokens after m3u8, over the words
\* the dictionary-only strategy looks for and one other word.
MaxTokens == 5
DictWords == {"com", "https", "playlist", "cdn"}
DictPages ==
  {<<"k", "=">> \o QuotedDict(<<"m3u8">> \o ws) \o <<";">> :
     ws \in UNION {[1..n -> DictWords] : n \in 1..MaxTokens}}

\* Packed texts of up to MaxPacked lexemes: code characters, a letter that
\* is no code, a longer run of digits, and a separator.
MaxPacked == 3
PackedLexemes == {"0", "1", "2", "3", "b", "f", "12", "."}
PackedTexts == UNION {[1..n -> PackedLexemes] : n \in 0..MaxPacked}
\* Dictionaries: empty, one word, two code characters swapped, entries that
\* are a dotted name, a code character and nothing, and twelve words.
UnpackDicts ==
  {<< >>, <<"x">>, <<"1", "|", "0">>, <<"a", ".", "b", "|", "2", "|", "|", "0">>,
   Pipes(<<"w0", "w1", "w2", "w3", "w4", "w5", "w6", "w7", "w8", "w9", "wa", "wb">>)}

Fragments ==
  {FragPacked, FragPackedNoUrl, FragFallback, FragDict, FragDictBad, FragLegacy,
   FragLegacyNoVideo, FragUrl, FragUrlEscaped, FragHtml}

MaxFragments == 2

\* The pages: up to MaxFragments fragments, one after the other, a space
\* between two of them.
RECURSIVE PagesOf(_)
PagesOf(n) ==
  IF n = 0 THEN {<< >>}
  ELSE PagesOf(n - 1) \cup {IF p = << >> THEN f ELSE p \o <<" ">> \o f :
                              p \in PagesOf(n - 1) \ {<< >>}, f \in Fragments}
                      \cup Fragments
Pages == PagesOf(MaxFragments)

\* ------------------------------------------------------------------ urls
\* text.strip(): white space removed at both ends.
Strip(s) ==
  LET ink == {i \in 1..Len(s) : s[i] # " "}
  IN IF ink = {} THEN << >> ELSE SubSeq(s, SetMin(ink), SetMax(ink))

\* text.strip("/")
StripSlashes(s) ==
  LET ink == {i \in 1..Len(s) : s[i] # "/"}
  IN IF ink = {} THEN << >> ELSE SubSeq(s, SetMin(ink), SetMax(ink))

\* text.endswith(suffix)
EndsWith(s, sfx) == Len(s) >= Len(sfx) /\ SubSeq(s, Len(s) - Len(sfx) + 1, Len(s)) = sfx

\* urlparse(url).path for a url scheme://netloc/path;params?query#fragment:
\* what lies between the end of the netloc and the first "?" or "#", cut at
\* the first ";" of its last segment.
UrlPath(url) ==
  LET NoParams(path, last) ==
        LET semis == {i \in (last + 1)..Len(path) : path[i] = ";"}
        IN IF semis = {} THEN path ELSE SubSeq(path, 1, SetMin(semis) - 1)
      LastSlash(path) ==
        LET slashes == {i \in 1..Len(path) : path[i] = "/"}
        IN IF slashes = {} THEN 0 ELSE SetMax(slashes)
      OfPath(path) == NoParams(path, LastSlash(path))
      NoQuery(tail) ==
        LET cuts == {i \in 1..Len(tail) : tail[i] \in {"?", "#"}}
        IN OfPath(IF cuts = {} THEN tail ELSE SubSeq(tail, 1, SetMin(cuts) - 1))
      NoNetloc(rest) ==
        LET ends == {i \in 1..Len(rest) : rest[i] \in {"/", "?", "#"}}
        IN NoQuery(IF ~SchemeAt(url, 1) THEN rest
                   ELSE IF ends = {} THEN << >> ELSE From(rest, SetMin(ends)))
  IN NoNetloc(IF SchemeAt(url, 1) THEN From(url, 5) ELSE url)

\* The characters sanitize_filename replaces.
IllegalChars == {"<", ">", ":", "\"", "/", "\\", "|", "?", "*"}

\* sanitize_filename on a text.
sanitize_filename(name_) ==
  LET replaced == [i \in 1..Len(name_) |-> IF name_[i] \in IllegalChars THEN "_" ELSE name_[i]]
  IN IF Strip(replaced) = << >> THEN <<"video">> ELSE Strip(replaced)

MISSAV_STRIP_SUFFIXES ==
  << <<"-", "uncensored", "-", "leak">>, <<"-", "uncensored">>, <<"-", "leak">> >>

\* The loop of _missav_filename_from_url over MISSAV_STRIP_SUFFIXES from
\* position k: the first suffix the segment ends with is cut off, with the
\* hyphens left at the end, and the loop is left.
RECURSIVE StripSuffix(_, _)
StripSuffix(segment, k) ==
  IF k > Len(MISSAV_STRIP_SUFFIXES) THEN segment
  ELSE IF EndsWith(segment, MISSAV_STRIP_SUFFIXES[k])
    THEN RStrip(SubSeq(segment, 1, Len(segment) - Len(MISSAV_STRIP_SUFFIXES[k])), "-")
  ELSE StripSuffix(segment, k + 1)

\* StripSuffix with the suffixes tried shortest first.
RECURSIVE StripSuffix_shortest(_, _)
StripSuffix_shortest(segment, k) ==
  LET n == Len(MISSAV_STRIP_SUFFIXES)
  IN IF k > n THEN segment
     ELSE IF EndsWith(segment, MISSAV_STRIP_SUFFIXES[n + 1 - k])
       THEN RStrip(SubSeq(segment, 1, Len(segment) - Len(MISSAV_STRIP_SUFFIXES[n + 1 - k])), "-")
     ELSE StripSuffix_shortest(segment, k + 1)

\* Mutant of TitleText: the suffixes are tried shortest first.
TitleText_shortest(url) ==
  LET Last(pieces) == pieces[Len(pieces)]
      OfPath(path) ==
        IF path = << >> THEN <<"video">>
        ELSE sanitize_filename(StripSuffix_shortest(Last(Split(path, <<"/">>)), 1))
  IN OfPath(StripSlashes(UrlPath(Strip(url))))

\* _missav_filename_from_url as a text.
TitleText(url) ==
  LET Last(pieces) == pieces[Len(pieces)]
      OfPath(path) ==
        IF path = << >> THEN <<"video">>
        ELSE sanitize_filename(StripSuffix(Last(Split(path, <<"/">>)), 1))
  IN OfPath(StripSlashes(UrlPath(Strip(url))))

_missav_filename_from_url(url) == Concat(TitleText(url))

\* MISSAV_URL_RE.match(url.strip()): https?://(?:www\.)?missav\.(?:ai|ws)/
_is_missav_url(url) ==
  LET Match(s) ==
        LET h == IF SchemeAt(s, 1) THEN 5 ELSE 0
            w == IF Tok(s, Tok(s, h, "www"), ".") # 0 THEN Tok(s, Tok(s, h, "www"), ".") ELSE h
            d == Tok(s, Tok(s, w, "missav"), ".")
        IN d # 0 /\ d <= Len(s) /\ s[d] \in {"ai", "ws"} /\ Tok(s, d + 1, "/") # 0
  IN Match(Strip(url))

\* The urls the title derivation is applied to: a missav host, a directory,
\* a last segment made of a stem and known suffixes, and what follows it.
UrlHost == <<"https", ":", "/", "/", "missav", ".", "ai">>
UrlDirs == {<<"/">>, <<"/", "dm1", "/">>}
UrlStems ==
  {<<"ipzz", "-", "556">>, <<"naac", "-", "032">>, << >>, <<"abc", "-">>,
   <<"a", ":", "b">>, <<"uncensored">>}
UrlTails ==
  {<< >>, <<"-", "uncensored", "-", "leak">>, <<"-", "uncensored">>, <<"-", "leak">>,
   <<"-", "leak", "-", "leak">>, <<"-", "leak", "-", "uncensored">>,
   <<"-", "uncensored", "-", "leak", "-", "uncensored", "-", "leak">>}
UrlTrailers == {<< >>, <<"/">>, <<"?", "page", "=", "2">>}
TitleUrls ==
  {UrlHost \o d \o stem \o tail \o t :
     d \in UrlDirs, stem \in UrlStems, tail \in UrlTails, t \in UrlTrailers}

\* The urls the jobs are started with.
MissavUrls == {<<"https", ":", "/", "/", "missav", ".", "ai", "/", "dm1", "/", "naac", "-", "032">>}
OtherUrls == {<<"https", ":", "/", "/", "example", ".", "com", "/", "watch", "?", "v", "=", "1">>}
Urls == MissavUrls \cup OtherUrls
DownloadTypes == {"video", "subs", "both"}

\* The sanitized title the delegate reports for a url that is not missav.
InfoTitle == "clip"

\* The display title: for a missav url the title derived from the url,
\* otherwise the sanitized title the delegate reports.
TitleOf == [url \in Urls |-> IF _is_missav_url(url) THEN _missav_filename_from_url(url) ELSE InfoTitle]
DerivedTitle(url) == TitleOf[url]

\* _extract_missav_m3u8_and_title: the manifest url and the title, or
\* nothing when no strategy finds a url.
NotFound == [found |-> FALSE, m3u8_url |-> None, title |-> None]
_extract_missav_m3u8_and_title(webpage, page_url) ==
  LET m3u8_url == ExtractedUrl(webpage)
  IN IF m3u8_url = None THEN NotFound
     ELSE [found |-> TRUE, m3u8_url |-> m3u8_url, title |-> _missav_filename_from_url(page_url)]

\* The pages the site answers a fetch with: one without any marker, one
\* with the packed player script.
FetchedPages == {FragHtml, FragPacked}
\* Mutant of ManifestOf: the page url is handed on in place of the manifest.
ManifestOf_page == [webpage \in FetchedPages |-> "https://missav.ai/dm1/naac-032"]
\* What the extractor recovers from each of them.
ManifestOf == [webpage \in FetchedPages |-> ExtractedUrl(webpage)]

\* ----------------------------------------------------------------- files
\* The entries a scratch directory can hold, listed in the lexicographic
\* order of their names (upper case sorts before lower case); an entry is
\* identified by its position in this list.  The first is a directory.
FileTable == <<
  [stem |-> "a", suffix |-> ".mkv", is_file |-> FALSE],
  [stem |-> "v", suffix |-> ".MKV", is_file |-> TRUE],
  [stem |-> "v.en", suffix |-> ".srt", is_file |-> TRUE],
  [stem |-> "v.ja", suffix |-> ".srt", is_file |-> TRUE],
  [stem |-> "v", suffix |-> ".jpg", is_file |-> TRUE],
  [stem |-> "v", suffix |-> ".mp4", is_file |-> TRUE],
  [stem |-> "v.zh", suffix |-> ".srt", is_file |-> TRUE] >>
Files == 1..Len(FileTable)
NoPath == 0
is_file(f) == FileTable[f].is_file

\* The sets of files a transfer leaves behind: nothing, a thumbnail only, a
\* video only, one subtitle, three subtitles, two videos with subtitles.
ProducedFileSets == {{}, {5}, {6}, {7}, {3, 4, 7}, {2, 3, 5, 6, 7}}

name(f) == FileTable[f].stem \o FileTable[f].suffix
suffix(f) == FileTable[f].suffix

\* str.lower() on the suffixes of the table.
lower(s) == IF s = ".MKV" THEN ".mkv" ELSE s

VIDEO_EXTS == {".mp4", ".mkv", ".webm", ".avi", ".mov", ".flv", ".m4a"}
SUB_EXTS == {".srt", ".vtt", ".ass", ".ssa"}

\* sorted(files) for a list that holds each path once: its paths in
\* ascending order of their names.
sorted(fl) ==
  LET S == {fl[i] : i \in 1..Len(fl)}
  IN [k \in 1..Cardinality(S) |-> Nth(S, k)]

\* tmpdir.glob("*") narrowed to the regular files: the files of the
\* directory in an order the file system chooses (here descending).
glob(files) ==
  LET S == {f \in files : is_file(f)}
  IN [k \in 1..Cardinality(S) |-> Nth(S, Cardinality(S) + 1 - k)]

\* The loop of _split_video_and_subs over the sorted list, from position i,
\* with the accumulators video_path and sub_paths.
RECURSIVE SplitLoop(_, _, _, _)
SplitLoop(fl, i, video_path, sub_paths) ==
  IF i > Len(fl) THEN <<video_path, sub_paths>>
  ELSE LET f == fl[i]
           ext == lower(suffix(f))
       IN IF ~is_file(f)
            THEN SplitLoop(fl, i + 1, video_path, sub_paths)
          ELSE IF ext \in VIDEO_EXTS /\ video_path = NoPath
            THEN SplitLoop(fl, i + 1, f, sub_paths)
          ELSE IF ext \in SUB_EXTS
            THEN SplitLoop(fl, i + 1, video_path, Append(sub_paths, f))
          ELSE SplitLoop(fl, i + 1, video_path, sub_paths)

\* Mutant of _split_video_and_subs: the list is walked in the given order.
_split_video_and_subs_unsorted(files) == SplitLoop(files, 1, NoPath, << >>)

_split_video_and_subs(files) == SplitLoop(sorted(files), 1, NoPath, << >>)

\* The lists the classifier is applied to: up to MaxListing entries of the
\* table, each at most once, in any order.
MaxListing == 3
RECURSIVE ListingsOf(_)
ListingsOf(n) ==
  IF n = 0 THEN {<< >>}
  ELSE ListingsOf(n - 1) \cup
       {Append(fl, f) : fl \in {l \in ListingsOf(n - 1) : Len(l) = n - 1}, f \in Files}
Listings == {fl \in ListingsOf(MaxListing) : \A i, j \in 1..Len(fl) : i # j => fl[i] # fl[j]}

\* ------------------------------------------------------- progress events
\* A progress event of the delegate.  total_bytes = 0 stands for an absent
\* or zero total, fragment_count = 0 for an absent or zero count,
\* fragment_index = -1 for an absent index.  _percent_str is absent
\* (whole = -1) or the delegate's formatting of a percentage with one
\* decimal, " <whole>.<frac>%".
NoPercent == [whole |-> -1, frac |-> 0]
Event(status, total_bytes, downloaded_bytes, percent, fragment_count, fragment_index) ==
  [status |-> status, total_bytes |-> total_bytes, downloaded_bytes |-> downloaded_bytes,
   percent |-> percent, fragment_count |-> fragment_count, fragment_index |-> fragment_index]

\* The events of a transfer: a known total (50 of 200 bytes), a percent
\* text only (" 45.3%"), fragments only (1 of 4), no size information at all,
\* the end of the transfer, and a status the hook ignores.
Events ==
  { Event("downloading", 200, 50, NoPercent, 0, -1),
    Event("downloading", 0, 0, [whole |-> 45, frac |-> 3], 0, -1),
    Event("downloading", 0, 0, NoPercent, 4, 1),
    Event("downloading", 0, 0, NoPercent, 0, -1),
    Event("finished", 0, 0, NoPercent, 0, -1),
    Event("error", 0, 0, NoPercent, 0, -1) }

\* d.get("_percent_str"): the text of the percent field, "" when absent.
_percent_str(d) ==
  IF d.percent = NoPercent THEN ""
  ELSE " " \o ToString(d.percent.whole) \o "." \o ToString(d.percent.frac) \o "%"

min(a, b) == IF a < b THEN a ELSE b

\* re.search(r"(\d+(?:\.\d+)?)\s*%") on the percent text, then
\* int(float(group) + 0.5): the percentage rounded half up; -1 when the
\* text holds no number.
ParsedPercent(d) ==
  IF d.percent = NoPercent THEN -1
  ELSE (d.percent.whole * 10 + d.percent.frac + 5) \div 10

\* Mutant of progress_hook: with a known total the percentage is rounded to
\* the nearest whole number.
progress_hook_round(d) ==
  IF d.status = "downloading" THEN
    IF d.total_bytes # 0 THEN
      LET pct == min(100, (2 * d.downloaded_bytes * 100 + d.total_bytes) \div (2 * d.total_bytes))
      IN <<pct, IF _percent_str(d) # "" THEN _percent_str(d) ELSE ToString(pct) \o "%">>
    ELSE
      LET msg == IF _percent_str(d) # "" THEN _percent_str(d) ELSE MSG_DOWNLOADING
          pct == IF ParsedPercent(d) >= 0 THEN min(100, ParsedPercent(d))
                 ELSE IF d.fragment_count # 0 /\ d.fragment_index # -1
                           /\ d.fragment_count > 0
                   THEN min(100, (d.fragment_index * 100) \div d.fragment_count)
                 ELSE 0
      IN <<pct, msg>>
  ELSE IF d.status = "finished" THEN <<100, MSG_MERGING>>
  ELSE << >>

\* progress_hook once the cancellation check has passed: the arguments
\* <<pct, msg>> of the callback, or << >> when the callback is not called.
progress_hook(d) ==
  IF d.status = "downloading" THEN
    IF d.total_bytes # 0 THEN
      LET pct == min(100, (d.downloaded_bytes * 100) \div d.total_bytes)
      IN <<pct, IF _percent_str(d) # "" THEN _percent_str(d) ELSE ToString(pct) \o "%">>
    ELSE
      LET msg == IF _percent_str(d) # "" THEN _percent_str(d) ELSE MSG_DOWNLOADING
          pct == IF ParsedPercent(d) >= 0 THEN min(100, ParsedPercent(d))
                 ELSE IF d.fragment_count # 0 /\ d.fragment_index # -1
                           /\ d.fragment_count > 0
                   THEN min(100, (d.fragment_index * 100) \div d.fragment_count)
                 ELSE 0
      IN <<pct, msg>>
  ELSE IF d.status = "finished" THEN <<100, MSG_MERGING>>
  ELSE << >>

\* The events the hook is applied to on its own: every combination of a
\* total, a byte count, a percent text and a fragment pair, and the two
\* other statuses.
HookEvents ==
  {Event("downloading", total, downloaded, percent, fc, fi) :
     total \in {0, 1, 3, 200}, downloaded \in {0, 1, 2, 50, 199, 200, 250},
     percent \in {NoPercent, [whole |-> 45, frac |-> 3]}, fc \in {0, 4}, fi \in {-1, 1}}
  \cup {Event("finished", 0, 0, NoPercent, 0, -1), Event("error", 0, 0, NoPercent, 0, -1)}

\* ------------------------------------------------------------ job record
\* The writes of _run_download_job and progress_cb to a DownloadLog row.
NewLog(url) ==
  [url |-> url, status |-> "pending", progress |-> 0, message |-> MSG_QUEUED,
   title |-> None, completed_at |-> None]

utcnow == "utcnow"

MarkRunning(log) ==
  [log EXCEPT !.status = "downloading", !.progress = 0, !.message = MSG_PREPARING]

\* Mutant of progress_cb: a callback with 100 percent ends the job.
progress_cb_done(log, percent, message) ==
  [log EXCEPT !.progress = min(100, percent), !.message = message,
              !.status = IF percent >= 100 THEN "done" ELSE @]

progress_cb(log, percent, message) ==
  [log EXCEPT !.progress = min(100, percent), !.message = message]

\* The rows after the hook has called the callback with cb for job j
\* (nothing when the hook did not call it, or the row is gone).
AfterCallback(rows, j, cb) ==
  IF cb # << >> /\ j \in DOMAIN rows
    THEN [rows EXCEPT ![j] = progress_cb(@, cb[1], cb[2])]
    ELSE rows

\* Mutant of hook: the predicate is asked after the callback has been called.
hook_late(check, d) ==
  [raised |-> check = "true", cb |-> progress_hook(d)]

\* One call of the hook built by _progress_hook_factory with a callback and
\* the cancellation predicate check (None when no predicate was given,
\* else what the predicate returns): whether DownloadCancelled was raised,
\* and the arguments of the callback, << >> when it was not called.
hook(check, d) ==
  IF check = "true" THEN [raised |-> TRUE, cb |-> << >>]
  ELSE [raised |-> FALSE, cb |-> progress_hook(d)]

\* Variant: a failed job is put back in the queue.
MarkError_requeue(log, message) ==
  [log EXCEPT !.status = "pending", !.message = message, !.completed_at = utcnow]

\* Variant: a failed job gets a fixed message instead of the error's text.
MarkError_generic(log, message) ==
  [log EXCEPT !.status = "error", !.message = "download failed", !.completed_at = utcnow]

MarkError(log, message) ==
  [log EXCEPT !.status = "error", !.message = message, !.completed_at = utcnow]

\* Variant: a finished job is given a status of its own.
MarkDone_finished(log, title) ==
  [log EXCEPT !.status = "finished", !.progress = 100, !.message = MSG_DONE,
              !.title = title, !.completed_at = utcnow]

MarkDone(log, title) ==
  [log EXCEPT !.status = "done", !.progress = 100, !.message = MSG_DONE,
              !.title = title, !.completed_at = utcnow]

\* ----------------------------------------------------------------- state
VARIABLES
  logs,            \* the download_logs table: job id -> DownloadLog row
  next_id,         \* the id the store gives to the next row
  runs,            \* the background tasks: one record per dispatched _run_download_job
  _job_results,    \* the process-wide result table: job id -> result_data
  dirs,            \* the scratch directories on disk (mkdtemp of run r is r)
  shutdown,        \* the lifespan has left its yield
  cancelled_check, \* the cancellation predicate given to the progress hook:
                   \* "None" (not given), or its current value "false" / "true"
  served,          \* the jobs whose deliverable download_result has served
  call             \* a function applied on its own: its name, its argument,
                   \* and its result once it has returned

vars == <<logs, next_id, runs, _job_results, dirs, shutdown, cancelled_check, served, call>>
\* The variables of the running service.
service == <<logs, next_id, runs, _job_results, dirs, shutdown, cancelled_check, served>>

RunIds == DOMAIN runs

\* A path as the result table and the responses hold it.
Path(n, sfx) == [name |-> n, suffix |-> sfx]
NoPathRec == Path(None, "")
PathOf(f) == Path(name(f), suffix(f))

NewRun(job_id, url, dtype) ==
  [job_id |-> job_id, url |-> url, dtype |-> dtype, pc |-> "start",
   outcome |-> None, exc |-> NoExc, invoked |-> FALSE, delegate_url |-> None,
   files |-> {}, title |-> None, video_path |-> NoPath, sub_paths |-> << >>,
   zip_name |-> None, zip_entries |-> {}]

\* No function is being applied on its own.
NoCall == [fn |-> None, arg |-> << >>, ret |-> << >>, done |-> FALSE]
\* A function fn about to be applied to arg.
Call(fn, arg) == [fn |-> fn, arg |-> arg, ret |-> << >>, done |-> FALSE]
\* The call has returned ret.
Return(c, ret) == [c EXCEPT !.ret = ret, !.done = TRUE]

\* The service after construction.
Idle ==
  /\ logs = << >>
  /\ next_id = 1
  /\ runs = << >>
  /\ _job_results = << >>
  /\ dirs = {}
  /\ shutdown = FALSE
  /\ cancelled_check = None
  /\ served = {}

Init == Idle /\ call = NoCall

Exit(run, outcome) == [run EXCEPT !.pc = "exit", !.outcome = outcome]

\* The except branch of _run_download_job, entered by the task r of the
\* task table rs with the exception e: the row, when it still exists,
\* becomes an error row carrying str(e).
ExceptBranch(rs, r, e) ==
  LET j == rs[r].job_id
  IN /\ logs' = IF j \in DOMAIN logs
                  THEN [logs EXCEPT ![j] = MarkError(@, str(e))]
                  ELSE logs
     /\ runs' = [rs EXCEPT ![r] = [Exit(@, "transfer_error") EXCEPT !.exc = e]]

\* ---------------------------------------------------------------- actions
\* POST /download: a pending row and one background task for it.
download_start(url, dtype) ==
  /\ ~shutdown
  /\ next_id <= MaxJobs
  /\ logs' = logs @@ (next_id :> NewLog(url))
  /\ next_id' = next_id + 1
  /\ runs' = Append(runs, NewRun(next_id, url, dtype))
  /\ UNCHANGED <<_job_results, dirs, shutdown, cancelled_check, served, call>>

\* _run_download_job, the query and the test of the row's status.
RunCheck(r) ==
  /\ ~shutdown
  /\ runs[r].pc = "start"
  /\ LET j == runs[r].job_id
     IN runs' = [runs EXCEPT ![r] =
                   IF j \notin DOMAIN logs \/ logs[j].status # "pending"
                     THEN Exit(@, "skipped")
                     ELSE [@ EXCEPT !.pc = "claimed"]]
  /\ UNCHANGED <<logs, next_id, _job_results, dirs, shutdown, cancelled_check, served, call>>

\* _run_download_job, the write of the running state and its commit.  The
\* commit of a row deleted since the query fails and the task ends.
RunCommit(r) ==
  /\ ~shutdown
  /\ runs[r].pc = "claimed"
  /\ LET j == runs[r].job_id
     IN IF j \in DOMAIN logs
          THEN /\ logs' = [logs EXCEPT ![j] = MarkRunning(@)]
               /\ runs' = [runs EXCEPT ![r].pc = "call"]
          ELSE /\ logs' = logs
               /\ runs' = [runs EXCEPT ![r] = Exit(@, "stale")]
  /\ UNCHANGED <<next_id, _job_results, dirs, shutdown, cancelled_check, served, call>>

\* download_video_with_subs up to the call of the delegate: the scratch
\* directory is made; for a missav url the page is fetched and the manifest
\* extracted, and either failure is raised to the except branch.
DownloadBegin(r, fetched, webpage) ==
  /\ ~shutdown
  /\ runs[r].pc = "call"
  /\ dirs' = dirs \cup {r}
  /\ LET url == runs[r].url
         begun == [runs EXCEPT ![r].invoked = TRUE]
     IN IF _is_missav_url(url) /\ fetched # "ok"
          THEN ExceptBranch(begun, r, Exc("ValueError", MSG_MISSAV_LOAD \o fetched))
        ELSE IF _is_missav_url(url) /\ ManifestOf[webpage] = None
          THEN ExceptBranch(begun, r, Exc("ValueError", MSG_MISSAV_PARSE))
        ELSE /\ logs' = logs
             /\ runs' = [begun EXCEPT ![r].pc = "transfer",
                                      ![r].delegate_url =
                                         IF _is_missav_url(url) THEN ManifestOf[webpage]
                                         ELSE Concat(url)]
  /\ UNCHANGED <<next_id, _job_results, shutdown, cancelled_check, served, call>>

\* The delegate reports a progress event and the hook returns: the
\* callback, when the hook called it, has written the row.
ProgressEvent(r, d) ==
  /\ ~shutdown
  /\ runs[r].pc = "transfer"
  /\ ~hook(cancelled_check, d).raised
  /\ logs' = AfterCallback(logs, runs[r].job_id, hook(cancelled_check, d).cb)
  /\ UNCHANGED <<next_id, runs, _job_results, dirs, shutdown, cancelled_check, served, call>>

\* The delegate fails during the transfer.
DelegateFails(r, e) ==
  /\ ~shutdown
  /\ runs[r].pc = "transfer"
  /\ ExceptBranch(runs, r, e)
  /\ UNCHANGED <<next_id, _job_results, dirs, shutdown, cancelled_check, served, call>>

\* The delegate reports a progress event and the hook raises
\* DownloadCancelled: the delegate unwinds with it into the except branch
\* of _run_download_job, which finds the row as the hook left it.
HookCancelled(r, d) ==
  /\ ~shutdown
  /\ runs[r].pc = "transfer"
  /\ hook(cancelled_check, d).raised
  /\ LET j == runs[r].job_id
         hooked == AfterCallback(logs, j, hook(cancelled_check, d).cb)
     IN logs' = IF j \in DOMAIN hooked
                  THEN [hooked EXCEPT ![j] = MarkError(@, str(DownloadCancelled))]
                  ELSE hooked
  /\ runs' = [runs EXCEPT ![r] = [Exit(@, "transfer_error") EXCEPT !.exc = DownloadCancelled]]
  /\ UNCHANGED <<next_id, _job_results, dirs, shutdown, cancelled_check, served, call>>

\* The injected cancellation predicate starts to return true.
RequestCancel ==
  /\ ~shutdown
  /\ cancelled_check = "false"
  /\ cancelled_check' = "true"
  /\ UNCHANGED <<logs, next_id, runs, _job_results, dirs, shutdown, served, call>>

\* ------------------------------------------------------------- packaging
\* The test of the requested kind against the classified files.
NoOutput(run, exists) ==
  \/ run.dtype = "video" /\ ~(run.video_path # NoPath /\ exists)
  \/ run.dtype = "subs" /\ run.sub_paths = << >>

NoOutputMessage(dtype) == IF dtype = "video" THEN MSG_NO_VIDEO ELSE MSG_NO_SUBS

\* The kinds that write an archive.
NeedsZip(run) ==
  \/ run.dtype = "subs" /\ Len(run.sub_paths) > 1
  \/ run.dtype = "both"

ZipName(run) ==
  IF run.dtype = "subs" THEN run.title \o "_subtitles.zip" ELSE run.title \o ".zip"

\* Variant: the loop over the scratch directory does not skip the archive.
ZipEntries_self(run) ==
  IF run.dtype = "subs"
    THEN {name(run.sub_paths[i]) : i \in 1..Len(run.sub_paths)}
    ELSE {name(f) : f \in run.files} \cup {ZipName(run)}

\* Variant: the archive takes every file of the scratch directory.
ZipEntries_all(run) ==
  {n \in {name(f) : f \in run.files} \cup {ZipName(run)} : n # ZipName(run)}

\* The arcnames written to the archive: the base names of the subtitle
\* files, or of every file of the scratch directory but the archive itself.
ZipEntries(run) ==
  IF run.dtype = "subs"
    THEN {name(run.sub_paths[i]) : i \in 1..Len(run.sub_paths)}
    ELSE {n \in {name(f) : f \in run.files} \cup {ZipName(run)} : n # ZipName(run)}

\* Variant: the video is named after the merge container, not after its own
\* suffix.
result_data_mkv(r, run) ==
  LET base == [tmpdir |-> r, title |-> run.title, dtype |-> run.dtype]
  IN IF run.dtype = "video"
       THEN base @@ [video_path |-> PathOf(run.video_path), file_path |-> NoPathRec,
                     filename |-> run.title \o ".mkv"]
     ELSE IF run.dtype = "subs" /\ Len(run.sub_paths) = 1
       THEN base @@ [video_path |-> NoPathRec, file_path |-> PathOf(run.sub_paths[1]),
                     filename |-> name(run.sub_paths[1])]
     ELSE base @@ [video_path |-> NoPathRec, file_path |-> Path(ZipName(run), ".zip"),
                   filename |-> ZipName(run)]

\* result_data as it is inserted in the result table by task r.
result_data(r, run) ==
  LET base == [tmpdir |-> r, title |-> run.title, dtype |-> run.dtype]
  IN IF run.dtype = "video"
       THEN base @@ [video_path |-> PathOf(run.video_path), file_path |-> NoPathRec,
                     filename |-> run.title \o suffix(run.video_path)]
     ELSE IF run.dtype = "subs" /\ Len(run.sub_paths) = 1
       THEN base @@ [video_path |-> NoPathRec, file_path |-> PathOf(run.sub_paths[1]),
                     filename |-> name(run.sub_paths[1])]
     ELSE base @@ [video_path |-> NoPathRec, file_path |-> Path(ZipName(run), ".zip"),
                   filename |-> ZipName(run)]

\* The task r after download_video_with_subs has returned, with its
\* locals in run: the deliverable is prepared for the requested kind and
\* inserted in the result table.  No matching file makes the row an error
\* row; an I/O error while writing the archive (io_ok false) leaves the
\* function through its finally clause.
Package(r, run, io_ok) ==
  LET j == run.job_id
  IN IF NoOutput(run, r \in dirs)
       THEN /\ logs' = IF j \in DOMAIN logs
                         THEN [logs EXCEPT ![j] = MarkError(@, NoOutputMessage(run.dtype))]
                         ELSE logs
            /\ runs' = [runs EXCEPT ![r] = Exit(run, "no_output")]
            /\ _job_results' = _job_results
     ELSE IF NeedsZip(run) /\ ~io_ok
       THEN /\ logs' = logs
            /\ runs' = [runs EXCEPT ![r] =
                          [Exit(run, "packaging_error") EXCEPT
                             !.exc = Exc("OSError", "No space left on device"),
                             !.zip_name = ZipName(run)]]
            /\ _job_results' = _job_results
     ELSE /\ logs' = logs
          /\ runs' = [runs EXCEPT ![r] =
                        [run EXCEPT !.pc = "inserted",
                                    !.zip_name = IF NeedsZip(run) THEN ZipName(run) ELSE None,
                                    !.zip_entries = IF NeedsZip(run) THEN ZipEntries(run) ELSE {}]]
          /\ _job_results' = (j :> result_data(r, run)) @@ _job_results

\* The delegate returns: the files it left are listed and classified, and
\* the task goes on to the packaging.  No file at all, or (for a url other
\* than missav) no video info, is raised to the except branch.
DelegateReturns(r, files, info, io_ok) ==
  /\ ~shutdown
  /\ runs[r].pc = "transfer"
  /\ LET url == runs[r].url
         split == _split_video_and_subs(glob(files))
     IN IF ~_is_missav_url(url) /\ ~info
          THEN ExceptBranch(runs, r, Exc("ValueError", MSG_NO_INFO)) /\ _job_results' = _job_results
        ELSE IF files = {}
          THEN ExceptBranch(runs, r, Exc("ValueError", MSG_NO_FILES)) /\ _job_results' = _job_results
        ELSE Package(r, [runs[r] EXCEPT !.files = files,
                                        !.title = DerivedTitle(url),
                                        !.video_path = split[1],
                                        !.sub_paths = split[2]], io_ok)
  /\ UNCHANGED <<next_id, dirs, shutdown, cancelled_check, served, call>>

\* _run_download_job, the final write of the done state.
Finish(r) ==
  /\ ~shutdown
  /\ runs[r].pc = "inserted"
  /\ LET j == runs[r].job_id
     IN logs' = IF j \in DOMAIN logs
                  THEN [logs EXCEPT ![j] = MarkDone(@, runs[r].title)]
                  ELSE logs
  /\ runs' = [runs EXCEPT ![r] = Exit(@, "done")]
  /\ UNCHANGED <<next_id, _job_results, dirs, shutdown, cancelled_check, served, call>>

\* -------------------------------------------------------------- requests
NoResponse == [code |-> 0, detail |-> "", path |-> NoPathRec, filename |-> "", media_type |-> ""]
Reply(code, detail) == [NoResponse EXCEPT !.code = code, !.detail = detail]

\* The response of GET /download/status/{job_id}.
download_status(j) ==
  IF j \notin DOMAIN logs THEN Reply(404, DETAIL_NOT_FOUND)
  ELSE Reply(200, logs[j].status)

\* Mutant of ResultResponse: the status of the job is not looked at.
ResultResponse_nostatus(j) ==
  IF j \notin DOMAIN logs THEN Reply(404, DETAIL_NOT_FOUND)
  ELSE IF j \notin DOMAIN _job_results THEN Reply(404, DETAIL_EXPIRED)
  ELSE LET data == _job_results[j]
       IN IF data.video_path # NoPathRec
            THEN [Reply(200, "") EXCEPT
                    !.path = data.video_path, !.filename = data.filename,
                    !.media_type = "application/octet-stream"]
          ELSE IF data.file_path = NoPathRec \/ data.tmpdir \notin dirs
            THEN Reply(404, DETAIL_NO_FILE)
          ELSE [Reply(200, "") EXCEPT
                  !.path = data.file_path, !.filename = data.filename,
                  !.media_type = IF data.file_path.suffix = ".zip"
                                   THEN "application/zip"
                                   ELSE "application/x-subrip"]

\* The response of GET /download/result/{job_id}.
ResultResponse(j) ==
  IF j \notin DOMAIN logs THEN Reply(404, DETAIL_NOT_FOUND)
  ELSE IF logs[j].status # "done" THEN Reply(400, DETAIL_NOT_DONE)
  ELSE IF j \notin DOMAIN _job_results THEN Reply(404, DETAIL_EXPIRED)
  ELSE LET data == _job_results[j]
       IN IF data.video_path # NoPathRec
            THEN [Reply(200, "") EXCEPT
                    !.path = data.video_path, !.filename = data.filename,
                    !.media_type = "application/octet-stream"]
          ELSE IF data.file_path = NoPathRec \/ data.tmpdir \notin dirs
            THEN Reply(404, DETAIL_NO_FILE)
          ELSE [Reply(200, "") EXCEPT
                  !.path = data.file_path, !.filename = data.filename,
                  !.media_type = IF data.file_path.suffix = ".zip"
                                   THEN "application/zip"
                                   ELSE "application/x-subrip"]

\* The result table after download_result has answered for job j.
ResultTableAfter(j, results) == results

\* GET /download/result/{job_id}: a request that is served.  A request that
\* is refused changes nothing.
download_result(j) ==
  /\ ~shutdown
  /\ ResultResponse(j).code = 200
  /\ served' = served \cup {j}
  /\ _job_results' = ResultTableAfter(j, _job_results)
  /\ UNCHANGED <<logs, next_id, runs, dirs, shutdown, cancelled_check, call>>

\* DELETE /admin/downloads/{log_id}
admin_delete_download(j) ==
  /\ ~shutdown
  /\ j \in DOMAIN logs
  /\ logs' = [k \in DOMAIN logs \ {j} |-> logs[k]]
  /\ UNCHANGED <<next_id, runs, _job_results, dirs, shutdown, cancelled_check, served, call>>

\* lifespan after its yield: the scratch directory of every entry of the
\* result table is removed and the table is cleared.
lifespan_shutdown ==
  /\ ~shutdown
  /\ dirs' = dirs \ {_job_results[j].tmpdir : j \in DOMAIN _job_results}
  /\ _job_results' = << >>
  /\ shutdown' = TRUE
  /\ UNCHANGED <<logs, next_id, runs, cancelled_check, served, call>>

\* The process is started again after it has shut down: the download_logs
\* table and the scratch directories are as they were left, the result table
\* of the new process is empty, and the background tasks of the old process
\* are gone.
restart ==
  /\ shutdown
  /\ shutdown' = FALSE
  /\ _job_results' = << >>
  /\ runs' = [r \in DOMAIN runs |->
                IF runs[r].pc = "exit" THEN runs[r]
                ELSE Exit(NewRun(runs[r].job_id, runs[r].url, runs[r].dtype), "killed")]
  /\ UNCHANGED <<logs, next_id, dirs, cancelled_check, served, call>>

\* The titles an administrator sends in a DownloadLogUpdate.
AdminTitles == {"", "renamed"}

\* PATCH /admin/downloads/{log_id} with a title: the row of any status
\* takes the title as sent, the empty string included.
admin_update_download(j, title) ==
  /\ ~shutdown
  /\ j \in DOMAIN logs
  /\ logs' = [logs EXCEPT ![j].title = title]
  /\ UNCHANGED <<next_id, runs, _job_results, dirs, shutdown, cancelled_check, served, call>>

\* The id SQLite, the default store, gives to a new row of download_logs
\* (an INTEGER PRIMARY KEY without AUTOINCREMENT): one more than the
\* largest id in the table, 1 for an empty table.
SqliteNextId ==
  IF DOMAIN logs = {} THEN 1
  ELSE (CHOOSE m \in DOMAIN logs : \A k \in DOMAIN logs : k <= m) + 1

\* POST /download on SQLite after the newest rows have been deleted: the
\* new row takes an id that a deleted row has had.
download_start_reused(url, dtype) ==
  /\ ~shutdown
  /\ SqliteNextId < next_id
  /\ Len(runs) - (next_id - 1) < MaxReuses
  /\ logs' = logs @@ (SqliteNextId :> NewLog(url))
  /\ runs' = Append(runs, NewRun(SqliteNextId, url, dtype))
  /\ UNCHANGED <<next_id, _job_results, dirs, shutdown, cancelled_check, served, call>>

\* A second background task for a job that already has one.
DuplicateDispatch(r) ==
  /\ ~shutdown
  /\ Len(runs) - (next_id - 1) < MaxDuplicates
  /\ runs' = Append(runs, NewRun(runs[r].job_id, runs[r].url, runs[r].dtype))
  /\ UNCHANGED <<logs, next_id, _job_results, dirs, shutdown, cancelled_check, served, call>>

\* --------------------------------------------------------- specifications
Next ==
  \/ \E url \in Urls, dtype \in DownloadTypes : download_start(url, dtype)
  \/ \E r \in RunIds : RunCheck(r)
  \/ \E r \in RunIds : RunCommit(r)
  \/ \E r \in RunIds, fetched \in {"ok"} \cup FetchErrorTexts, webpage \in FetchedPages :
       DownloadBegin(r, fetched, webpage)
  \/ \E r \in RunIds, d \in Events : ProgressEvent(r, d)
  \/ \E r \in RunIds, e \in TransferErrors : DelegateFails(r, e)
  \/ \E r \in RunIds, files \in ProducedFileSets, info \in BOOLEAN, io_ok \in BOOLEAN :
       DelegateReturns(r, files, info, io_ok)
  \/ \E r \in RunIds : Finish(r)
  \/ \E j \in JobIds : download_result(j)
  \/ \E j \in JobIds : admin_delete_download(j)
  \/ lifespan_shutdown

\* The program as main.py wires it: no cancellation predicate is passed to
\* download_video_with_subs and every job is dispatched once.
Spec == Init /\ [][Next]_vars

\* The program with a cancellation predicate given to the progress hook.
InitInject ==
  /\ logs = << >>
  /\ next_id = 1
  /\ runs = << >>
  /\ _job_results = << >>
  /\ dirs = {}
  /\ shutdown = FALSE
  /\ cancelled_check = "false"
  /\ served = {}
  /\ call = NoCall

NextInject ==
  \/ Next
  \/ \E r \in RunIds, d \in Events : HookCancelled(r, d)
  \/ RequestCancel

SpecInject == InitInject /\ [][NextInject]_vars

\* The program over more than one life of its process.
NextRestart ==
  \/ Next
  \/ restart

SpecRestart == Init /\ [][NextRestart]_vars

\* The program with a job dispatched a second time.
NextDup ==
  \/ Next
  \/ \E r \in RunIds : DuplicateDispatch(r)

SpecDup == Init /\ [][NextDup]_vars

\* The program with an administrator editing the titles of the rows.
NextAdmin ==
  \/ Next
  \/ \E j \in JobIds, title \in AdminTitles : admin_update_download(j, title)

SpecAdmin == Init /\ [][NextAdmin]_vars

\* The program on its default store, where the id of a deleted newest row
\* is given to the next row.
NextReuse ==
  \/ Next
  \/ \E url \in OtherUrls, dtype \in {"video"} : download_start_reused(url, dtype)

SpecReuse == Init /\ [][NextReuse]_vars

\* The manifest extractor applied to a page on its own.
ExtractCalls ==
  {Call("_extract_missav_m3u8_and_title", <<webpage, page_url>>) :
     webpage \in Pages \cup LegacyPages, page_url \in MissavUrls}

InitExtract == Idle /\ call \in ExtractCalls

Extract ==
  /\ call.fn = "_extract_missav_m3u8_and_title"
  /\ ~call.done
  /\ call' = Return(call, _extract_missav_m3u8_and_title(call.arg[1], call.arg[2]))
  /\ UNCHANGED service

SpecExtract == InitExtract /\ [][Extract]_vars

\* The dictionary-only strategy applied to a page on its own.
DictCalls ==
  {Call("_extract_missav_m3u8_from_dict_only", webpage) : webpage \in DictPages \cup Pages}

InitDict == Idle /\ call \in DictCalls

DictOnly ==
  /\ call.fn = "_extract_missav_m3u8_from_dict_only"
  /\ ~call.done
  /\ call' = Return(call, _extract_missav_m3u8_from_dict_only(call.arg))
  /\ UNCHANGED service

SpecDict == InitDict /\ [][DictOnly]_vars

\* The unpacker applied to a packed text and a dictionary on its own, and
\* once more to its own result.
UnpackCalls ==
  {Call("_unpack_missav_packed_js", <<packed, dict_str>>) :
     packed \in PackedTexts, dict_str \in UnpackDicts}

InitUnpack == Idle /\ call \in UnpackCalls

Unpack ==
  /\ call.fn = "_unpack_missav_packed_js"
  /\ ~call.done
  /\ call' = Return(call,
       [once |-> _unpack_missav_packed_js(call.arg[1], call.arg[2]),
        twice |-> _unpack_missav_packed_js(
                    _unpack_missav_packed_js(call.arg[1], call.arg[2]), call.arg[2])])
  /\ UNCHANGED service

SpecUnpack == InitUnpack /\ [][Unpack]_vars

\* The file classifier applied to a list on its own.
SplitCalls == {Call("_split_video_and_subs", fl) : fl \in Listings}

InitSplit == Idle /\ call \in SplitCalls

Split_ ==
  /\ call.fn = "_split_video_and_subs"
  /\ ~call.done
  /\ call' = Return(call, _split_video_and_subs(call.arg))
  /\ UNCHANGED service

SpecSplit == InitSplit /\ [][Split_]_vars

\* The title derivation applied to a url on its own.
TitleCalls == {Call("_missav_filename_from_url", url) : url \in TitleUrls \cup MissavUrls}

InitTitle == Idle /\ call \in TitleCalls

Title ==
  /\ call.fn = "_missav_filename_from_url"
  /\ ~call.done
  /\ call' = Return(call, [text |-> TitleText(call.arg),
                           str |-> _missav_filename_from_url(call.arg)])
  /\ UNCHANGED service

SpecTitle == InitTitle /\ [][Title]_vars

\* The rows the progress callback writes to: a job that has just been
\* marked running, and the same job after one event of a transfer.
HookLogs ==
  {MarkRunning(NewLog(url)) : url \in MissavUrls}
  \cup {progress_cb(MarkRunning(NewLog(url)), progress_hook(d)[1], progress_hook(d)[2]) :
          url \in MissavUrls, d \in {e \in Events : progress_hook(e) # << >>}}

\* The progress hook applied to one event on its own, the callback writing
\* to a row.
HookCalls == {Call("progress_hook", [d |-> d, log |-> log]) : d \in HookEvents, log \in HookLogs}

InitHook == Idle /\ call \in HookCalls

Hook ==
  /\ call.fn = "progress_hook"
  /\ ~call.done
  /\ call' = Return(call,
       [cb |-> progress_hook(call.arg.d),
        log |-> IF progress_hook(call.arg.d) = << >> THEN call.arg.log
                ELSE progress_cb(call.arg.log, progress_hook(call.arg.d)[1],
                                 progress_hook(call.arg.d)[2])])
  /\ UNCHANGED service

SpecHook == InitHook /\ [][Hook]_vars

\* ------------------------------------------------------------ properties
JobOf(r) == runs[r].job_id
HasLog(r) == JobOf(r) \in DOMAIN logs

\* The number of tasks of job j that have called download_video_with_subs.
Invocations(j) == Cardinality({r \in RunIds : runs[r].job_id = j /\ runs[r].invoked})

\* The task r is past the packaging: its deliverable has been inserted.
Delivered(r) == runs[r].pc = "inserted" \/ runs[r].outcome = "done"

\* The entry of the result table that task r inserted is still there.
HoldsEntry(r) ==
  /\ JobOf(r) \in DOMAIN _job_results
  /\ _job_results[JobOf(r)].tmpdir = r

ForwardSteps ==
  {<<"pending", "downloading">>, <<"downloading", "done">>, <<"downloading", "error">>}

C2_PackagingFailureIsError ==
  \A r \in RunIds :
    runs[r].outcome = "packaging_error" /\ HasLog(r) =>
      /\ logs[JobOf(r)].status = "error"
      /\ logs[JobOf(r)].completed_at # None

\* C3: a task whose download raised an error has left its job in status
\* error with the error's own text as message and completed_at stamped, and
\* no job has its download invoked more than once.
C3_TransferErrorIsVerbatim ==
  /\ \A r \in RunIds :
       runs[r].outcome = "transfer_error" /\ HasLog(r) =>
         /\ logs[JobOf(r)].status = "error"
         /\ logs[JobOf(r)].message = runs[r].exc.msg
         /\ logs[JobOf(r)].completed_at # None
  /\ \A j \in JobIds : Invocations(j) <= 1

\* C3 witness: the delegate has failed during a transfer and the job shows
\* the delegate's error text.
C3_Witness ==
  \E r \in RunIds :
    /\ runs[r].exc \in TransferErrors
    /\ runs[r].pc = "exit"
    /\ HasLog(r)
    /\ logs[JobOf(r)].message \in TransferErrorTexts

\* The messages a failed transfer can leave in a job.
TransferFailureMessages ==
  TransferErrorTexts \cup {MSG_MISSAV_PARSE, MSG_NO_FILES, MSG_NO_INFO}
    \cup {MSG_MISSAV_LOAD \o t : t \in FetchErrorTexts}

\* C4: a task whose hook raised the cancellation condition has left its job
\* in status error with a message that is not empty and is not the message
\* of a transfer error.
C4_CancelledIsDistinguished ==
  \A r \in RunIds :
    runs[r].exc = DownloadCancelled /\ runs[r].pc = "exit" /\ HasLog(r) =>
      /\ logs[JobOf(r)].status = "error"
      /\ logs[JobOf(r)].message # ""
      /\ logs[JobOf(r)].message \notin TransferFailureMessages

\* C5: once download_result has served the deliverable of a job, the job has
\* no entry in the result table and download_result does not serve it again.
C5_ServedOnce ==
  \A j \in served :
    /\ j \notin DOMAIN _job_results
    /\ ResultResponse(j).code # 200

\* C6: the scratch directory of a task that has ended is gone once the job's
\* result has been consumed, and once the process has shut down.
C6_ScratchDeleted ==
  \A r \in dirs :
    runs[r].pc = "exit" => ~shutdown /\ JobOf(r) \notin served

\* C7: between two states in which a job is downloading, its stored progress
\* does not decrease.
C7_ProgressMonotone ==
  [][\A j \in DOMAIN logs \cap DOMAIN logs' :
        logs[j].status = "downloading" /\ logs'[j].status = "downloading" =>
          logs'[j].progress >= logs[j].progress]_vars

\* C8: for every job at most one task passes the pending test and invokes
\* the download.
C8_SingleClaim ==
  \A j \in JobIds :
    /\ Cardinality({r \in RunIds : runs[r].job_id = j
                                     /\ runs[r].pc \notin {"start", "claimed"}
                                     /\ runs[r].outcome \notin {"skipped", "stale"}}) <= 1
    /\ Invocations(j) <= 1

\* C9: for kind video after a successful transfer, a task with a primary
\* media file ends done with the result entry holding exactly that file under
\* the name title + the file's own suffix; a task without one ends in error
\* with the no-video message and no entry in the result table.
C9_MediaDeliverable ==
  \A r \in RunIds :
    runs[r].dtype = "video" /\ (Delivered(r) \/ runs[r].outcome = "no_output") =>
      IF runs[r].video_path # NoPath
        THEN /\ Delivered(r)
             /\ runs[r].outcome = "done" /\ HasLog(r) => logs[JobOf(r)].status = "done"
             /\ HoldsEntry(r) =>
                  /\ _job_results[JobOf(r)].video_path = PathOf(runs[r].video_path)
                  /\ _job_results[JobOf(r)].file_path = NoPathRec
                  /\ _job_results[JobOf(r)].filename =
                       DerivedTitle(runs[r].url) \o FileTable[runs[r].video_path].suffix
        ELSE /\ runs[r].outcome = "no_output"
             /\ HasLog(r) => /\ logs[JobOf(r)].status = "error"
                             /\ logs[JobOf(r)].message = MSG_NO_VIDEO
             /\ JobOf(r) \notin DOMAIN _job_results

\* C9 witness: a video job whose transfer left two media files is done and
\* its deliverable is in the result table.
C9_Witness ==
  \E r \in RunIds :
    /\ runs[r].dtype = "video"
    /\ runs[r].outcome = "done"
    /\ Cardinality({f \in runs[r].files : lower(suffix(f)) \in VIDEO_EXTS}) > 1
    /\ HasLog(r) /\ logs[JobOf(r)].status = "done"
    /\ HoldsEntry(r)

\* The subtitle files among a set of files.
SubtitleFiles(files) == {f \in files : lower(suffix(f)) \in SUB_EXTS}

\* C10: for kind subs after a successful transfer, no subtitle file ends the
\* job in error with the no-subtitles message; exactly one is delivered as
\* the file itself, with no archive written; k > 1 are delivered as the
\* archive title_subtitles.zip whose entries are the base names of exactly
\* those k files.
C10_SubtitleDeliverable ==
  \A r \in RunIds :
    LET subs == SubtitleFiles(runs[r].files)
        k == Cardinality(subs)
    IN runs[r].dtype = "subs" =>
         /\ runs[r].outcome = "no_output" =>
              /\ k = 0
              /\ HasLog(r) => /\ logs[JobOf(r)].status = "error"
                              /\ logs[JobOf(r)].message = MSG_NO_SUBS
         /\ Delivered(r) => k > 0
         /\ Delivered(r) /\ k = 1 =>
              /\ runs[r].zip_name = None
              /\ HoldsEntry(r) =>
                   /\ \E f \in subs : _job_results[JobOf(r)].file_path = PathOf(f)
                                      /\ _job_results[JobOf(r)].filename = name(f)
         /\ Delivered(r) /\ k > 1 =>
              /\ runs[r].zip_name = DerivedTitle(runs[r].url) \o "_subtitles.zip"
              /\ runs[r].zip_entries = {name(f) : f \in subs}
              /\ Cardinality(runs[r].zip_entries) = k
              /\ HoldsEntry(r) =>
                   /\ _job_results[JobOf(r)].file_path = Path(runs[r].zip_name, ".zip")
                   /\ _job_results[JobOf(r)].filename = runs[r].zip_name

\* C10 witness: a subs job whose transfer left three subtitle files is done
\* with an archive of three entries.
C10_Witness ==
  \E r \in RunIds :
    /\ runs[r].dtype = "subs"
    /\ runs[r].outcome = "done"
    /\ Cardinality(SubtitleFiles(runs[r].files)) = 3
    /\ Cardinality(runs[r].zip_entries) = 3
    /\ HoldsEntry(r)

Candidates(webpage) ==
  <<_extract_missav_m3u8_from_packed(webpage), _extract_missav_m3u8_from_dict_only(webpage),
    LegacyUrl(webpage), GenericUrl(webpage)>>

\* The page holds a packed-eval marker, a dictionary-only marker.
HasPackedMarker(webpage) == \E i \in 1..Len(webpage) : PackedAt(webpage, i).ok
HasDictMarker(webpage) == \E j \in 1..Len(webpage) : DictAt(webpage, j) # 0

Extracted == call.done /\ call.fn = "_extract_missav_m3u8_and_title"

LoadFailures == {MSG_MISSAV_LOAD \o t : t \in FetchErrorTexts}

\* The manifest urls the extractor recovers from the fetched pages.
RecoveredManifests == {ExtractedUrl(webpage) : webpage \in FetchedPages} \ {None}

\* C13: for a missav url the delegate is invoked only with a manifest url
\* the extractor recovered from the fetched page, never with the page url; a
\* failed fetch ends the job in error with the page-load message, a page
\* without manifest ends it in error with the page-structure message, which
\* is a different one, and in both cases the delegate is not invoked.
C13_DelegateAfterExtraction ==
  /\ MSG_MISSAV_PARSE \notin LoadFailures
  /\ \A r \in RunIds :
       _is_missav_url(runs[r].url) =>
         /\ runs[r].delegate_url # None =>
              /\ runs[r].delegate_url \in RecoveredManifests
              /\ runs[r].delegate_url # Concat(runs[r].url)
              /\ runs[r].exc.msg \notin LoadFailures \cup {MSG_MISSAV_PARSE}
         /\ runs[r].exc.msg \in LoadFailures \cup {MSG_MISSAV_PARSE} =>
              /\ runs[r].delegate_url = None
              /\ HasLog(r) => /\ logs[JobOf(r)].status = "error"
                              /\ logs[JobOf(r)].message = runs[r].exc.msg

\* A missav job whose page yielded a manifest: the delegate runs on it.
C13_Witness ==
  \E r \in RunIds :
    /\ _is_missav_url(runs[r].url)
    /\ runs[r].pc = "transfer"
    /\ runs[r].delegate_url \in RecoveredManifests
    /\ HasLog(r) /\ logs[JobOf(r)].status = "downloading"

\* The page of the call is the legacy fixture of shape sh and nothing else
\* but plain markup.
OnlyLegacy(sh) ==
  \E pre \in Before, post \in After :
    call.arg[1] = pre \o LegacyFixture(sh.ps, sh.host, sh.scheme, sh.fmt) \o post

Classified == call.done /\ call.fn = "_split_video_and_subs"

\* The entries of a list, as a set.
Range(fl) == {fl[i] : i \in 1..Len(fl)}
\* The regular files of a set with a media extension, a subtitle extension.
MediaFiles(files) == {f \in files : is_file(f) /\ lower(suffix(f)) \in VIDEO_EXTS}
SubFiles(files) == {f \in files : is_file(f) /\ lower(suffix(f)) \in SUB_EXTS}

\* C15: the classifier's result depends on the set of the listed files only:
\* the primary is the regular media file whose name sorts first (none if
\* there is no such file), the subtitle list holds exactly the regular
\* subtitle files in ascending order of their names, also those sorting
\* before the primary; every list of the same files gives the same result.
C15_OrderIndependent ==
  Classified =>
    \A files \in {Range(call.arg)} :
      /\ call.ret[1] = IF MediaFiles(files) = {} THEN NoPath ELSE SetMin(MediaFiles(files))
      /\ Range(call.ret[2]) = SubFiles(files)
      /\ Len(call.ret[2]) = Cardinality(SubFiles(files))
      /\ \A i, j \in 1..Len(call.ret[2]) : i < j => call.ret[2][i] < call.ret[2][j]
      /\ \A fl \in Listings : Range(fl) = files => _split_video_and_subs(fl) = call.ret

\* A list that is not in order, with a subtitle file that sorts before the
\* primary and a directory that sorts before both.
C15_Witness ==
  /\ Classified
  /\ call.arg = <<6, 3, 1>>
  /\ call.ret = <<6, <<3>> >>

Titled == call.done /\ call.fn = "_missav_filename_from_url"

\* The last non-empty segment of the path of a url, empty if it has none.
LastSegment(url) ==
  LET LastFull(segs) ==
        LET full == {i \in 1..Len(segs) : segs[i] # << >>}
        IN IF full = {} THEN << >> ELSE segs[SetMax(full)]
  IN LastFull(Split(UrlPath(Strip(url)), <<"/">>))

\* The known suffix a segment ends with, the longer before the shorter;
\* empty if it ends with none.
KnownSuffix(seg) ==
  IF EndsWith(seg, <<"-", "uncensored", "-", "leak">>) THEN <<"-", "uncensored", "-", "leak">>
  ELSE IF EndsWith(seg, <<"-", "uncensored">>) THEN <<"-", "uncensored">>
  ELSE IF EndsWith(seg, <<"-", "leak">>) THEN <<"-", "leak">>
  ELSE << >>
WithoutSuffix(seg) == SubSeq(seg, 1, Len(seg) - Len(KnownSuffix(seg)))

\* The result is not empty and holds none of the characters a file name
\* must not hold; the two examples of the claim.
TitleIsFileName ==
  /\ call.ret.text # << >> /\ call.ret.str # ""
  /\ \A i \in 1..Len(call.ret.text) : call.ret.text[i] \notin IllegalChars
  /\ call.arg = UrlHost \o <<"/", "ipzz", "-", "556", "-", "uncensored", "-", "leak">>
       => call.ret.str = "ipzz-556"
  /\ call.arg = UrlHost \o <<"/", "dm1", "/", "naac", "-", "032">> => call.ret.str = "naac-032"

\* C16 as stated: the title is the last non-empty path segment with at most
\* one known suffix removed (the longest that matches), made a file name; it
\* is never empty and holds no character of < > : " / \ | ? *.
C16_Title_AsStated ==
  Titled =>
    /\ call.ret.text = sanitize_filename(WithoutSuffix(LastSegment(call.arg)))
    /\ TitleIsFileName

\* C16 (amended): the title is the last non-empty path segment with at most
\* one known suffix removed (the longest that matches) and, when a suffix was
\* removed, without the hyphens left at its end, made a file name; it is never
\* empty and holds no character of < > : " / \ | ? *.
C16_Title ==
  Titled =>
    \A seg \in {LastSegment(call.arg)} :
      /\ call.ret.text =
           sanitize_filename(IF KnownSuffix(seg) = << >> THEN seg
                             ELSE RStrip(WithoutSuffix(seg), "-"))
      /\ call.ret.str = Concat(call.ret.text)
      /\ TitleIsFileName

\* The segment abc--leak: the suffix and the hyphen before it are removed.
C16_Witness ==
  /\ Titled
  /\ call.arg = UrlHost \o <<"/", "abc", "-", "-", "leak">>
  /\ call.ret.str = "abc"

Hooked == call.done /\ call.fn = "progress_hook"

\* C17: on a downloading event with a total > 0 and a byte count >= 0 the
\* callback gets the whole percentage of the byte count in the total, rounded
\* down and capped at 100: 25 for 50 of 200, 100 for 250 of 200.
C17_KnownTotalPercent ==
  Hooked =>
    \A d \in {call.arg.d} :
      d.status = "downloading" /\ d.total_bytes > 0 /\ d.downloaded_bytes >= 0 =>
        /\ call.ret.cb # << >>
        /\ \A pct \in {call.ret.cb[1]} :
             /\ pct \in 0..100
             /\ pct * d.total_bytes <= d.downloaded_bytes * 100
             /\ pct < 100 => d.downloaded_bytes * 100 < (pct + 1) * d.total_bytes
             /\ d.downloaded_bytes = 50 /\ d.total_bytes = 200 => pct = 25
             /\ d.downloaded_bytes > d.total_bytes => pct = 100
             /\ call.ret.log.progress = pct

\* Two of three bytes: 66, not 67.
C17_Witness ==
  /\ Hooked
  /\ call.arg.d.status = "downloading"
  /\ call.arg.d.total_bytes = 3 /\ call.arg.d.downloaded_bytes = 2
  /\ call.ret.cb[1] = 66

\* The event carries no size information: no total, no percent text, and no
\* fragment pair with a count > 0.
NoSizeInfo(d) ==
  /\ d.status = "downloading"
  /\ d.total_bytes = 0
  /\ d.percent = NoPercent
  /\ ~(d.fragment_count > 0 /\ d.fragment_index # -1)

\* C20: a downloading event without size information leaves the progress of
\* the job at its last value.
C20_ProgressKept ==
  Hooked /\ NoSizeInfo(call.arg.d) => call.ret.log.progress = call.arg.log.progress

\* C18: download_result serves nothing for a job that is not done (pending,
\* downloading or error): the answer is a refusal without a file; for a done
\* job whose entry is not in the result table the answer is "expired", and
\* every answer that serves a file is for a done job with an entry.
C18_ServesOnlyDone ==
  \A j \in DOMAIN logs :
    \A answer \in {ResultResponse(j)} :
      /\ logs[j].status \in {"pending", "downloading", "error"} =>
           answer.code # 200 /\ answer.path = NoPathRec
      /\ logs[j].status = "done" /\ j \notin DOMAIN _job_results =>
           answer = Reply(404, DETAIL_EXPIRED)
      /\ answer.code = 200 => logs[j].status = "done" /\ j \in DOMAIN _job_results

\* A done job asked for in a later life of the process: "expired".
C18_Witness ==
  \E j \in DOMAIN logs :
    /\ ~shutdown
    /\ logs[j].status = "done"
    /\ j \notin DOMAIN _job_results
    /\ ResultResponse(j) = Reply(404, DETAIL_EXPIRED)

\* C19: the event on which the cancellation predicate is true does not reach
\* the progress callback, and no later event is processed for that task: in
\* the step in which a task's hook raises, and in every step after it, the
\* progress of the task's job stays what it was.
C19_CancelBeforeCallback ==
  [][\A r \in RunIds :
       runs'[r].exc = DownloadCancelled
         /\ runs[r].job_id \in DOMAIN logs /\ runs[r].job_id \in DOMAIN logs' =>
           logs'[runs[r].job_id].progress = logs[runs[r].job_id].progress]_vars

\* A task cancelled after an event had put its job's progress at 25: the
\* job still shows 25.
C19_Witness ==
  \E r \in RunIds :
    /\ runs[r].exc = DownloadCancelled
    /\ runs[r].pc = "exit"
    /\ HasLog(r)
    /\ logs[JobOf(r)].progress = 25
    /\ logs[JobOf(r)].status = "error"

\* C21: a job that shows the merging message of a "finished" event is still
\* downloading, with progress 100; and while the process runs, a job that
\* shows status done has its entry in the result table (the final write
\* comes after the insertion).
C21_DoneAfterInsert ==
  \A j \in DOMAIN logs :
    /\ logs[j].message = MSG_MERGING =>
         logs[j].status = "downloading" /\ logs[j].progress = 100
    /\ logs[j].status = "done" /\ ~shutdown => j \in DOMAIN _job_results

\* A job whose transfer has reported "finished" and whose deliverable is
\* not yet in the result table.
C21_Witness ==
  \E r \in RunIds :
    /\ HasLog(r)
    /\ runs[r].pc = "transfer"
    /\ logs[JobOf(r)].message = MSG_MERGING
    /\ logs[JobOf(r)].status = "downloading"
    /\ JobOf(r) \notin DOMAIN _job_results

\* The dictionary-only strategy has been applied to a page.
DictTried == call.done /\ call.fn = "_extract_missav_m3u8_from_dict_only"

\* The tokens of the first quoted dictionary 'm3u8|...'.split('|') of a
\* page, m3u8 being the token at position 0; empty when the page has none.
FirstDict(webpage) ==
  LET First(ds) ==
        IF ds = {} THEN << >>
        ELSE Words(SubSeq(webpage, SetMin(ds) + 1, DictAt(webpage, SetMin(ds)) - 1))
  IN First({j \in 1..Len(webpage) : DictAt(webpage, j) # 0})

\* The preconditions the claim names, on the tokens of the dictionary.
DictPreconditions(tokens) ==
  /\ tokens # << >>
  /\ \E i \in 1..Len(tokens) : tokens[i] = "https"
  /\ \E i \in 1..Len(tokens) : tokens[i] = "playlist"
  /\ \E i \in 1..Len(tokens) : tokens[i] = "com"
  /\ IndexOf(tokens, "com") + 1 < IndexOf(tokens, "https")

\* https://<com up to https, reversed, "."-joined>/<positions 1..5,
\* reversed, "-"-joined>/playlist.m3u8
DictCandidate(tokens) ==
  "https://"
  \o Join(Reverse(SubSeq(tokens, IndexOf(tokens, "com"), IndexOf(tokens, "https") - 1)), ".")
  \o "/" \o Join(Reverse(SubSeq(tokens, 2, 6)), "-") \o "/playlist.m3u8"

\* C22 as stated: the strategy yields a candidate exactly when the page has
\* a quoted dictionary whose tokens hold https and playlist and hold com
\* before https with a token between them, and the candidate is then the
\* reconstructed url.
C22_DictOnly_AsStated ==
  DictTried =>
    \A tokens \in {FirstDict(call.arg)} :
      /\ call.ret # None <=> DictPreconditions(tokens)
      /\ call.ret # None => call.ret = DictCandidate(tokens)

\* C22: the strategy yields a candidate exactly when the first quoted
\* dictionary of the page has at least six tokens (m3u8 included), holds
\* https and playlist, and holds com before https with a token between
\* them; the candidate is then the reconstructed url; otherwise the strategy
\* returns nothing.
C22_DictOnly ==
  DictTried =>
    \A tokens \in {FirstDict(call.arg)} :
      /\ call.ret # None <=> DictPreconditions(tokens) /\ Len(tokens) >= 6
      /\ call.ret # None => call.ret = DictCandidate(tokens)

\* A dictionary of six tokens with com two places before https.
C22_Witness ==
  /\ DictTried
  /\ FirstDict(call.arg) = <<"m3u8", "cdn", "com", "cdn", "https", "playlist">>
  /\ call.ret = "https://cdn.com/playlist-https-cdn-com-cdn/playlist.m3u8"

\* The unpacker has been applied.
Unpacked == call.done /\ call.fn = "_unpack_missav_packed_js"

\* The index a character addresses: 0-9 for a digit, 10-14 for a to e, and
\* -1 for anything else.
CodeIndex(c) ==
  CASE c = "0" -> 0 [] c = "1" -> 1 [] c = "2" -> 2 [] c = "3" -> 3 [] c = "4" -> 4
    [] c = "5" -> 5 [] c = "6" -> 6 [] c = "7" -> 7 [] c = "8" -> 8 [] c = "9" -> 9
    [] c = "a" -> 10 [] c = "b" -> 11 [] c = "c" -> 12 [] c = "d" -> 13 [] c = "e" -> 14
    [] OTHER -> -1

\* Position i of the text holds a single code character with no letter,
\* digit or underscore next to it.
Isolated(text, i) ==
  /\ CodeIndex(text[i]) >= 0
  /\ i > 1 => text[i - 1] \in Punctuation
  /\ i < Len(text) => text[i + 1] \in Punctuation

\* What the claim says stands in the result for position i of the packed
\* text, entries being the texts between the pipes of the dictionary.
Replacement(packed, entries, i) ==
  IF Isolated(packed, i) /\ CodeIndex(packed[i]) < Len(entries)
    THEN entries[CodeIndex(packed[i]) + 1]
    ELSE <<packed[i]>>

\* C23: the result of the unpacker is the packed text with every isolated
\* code character whose index is below the length of the dictionary replaced
\* by the entry at that index, and everything else as it was.
C23_Unpack ==
  Unpacked =>
    \A packed \in {call.arg[1]} : \A entries \in {Split(call.arg[2], <<"|">>)} :
      call.ret.once =
        FlattenRange([i \in 1..Len(packed) |-> Replacement(packed, entries, i)],
                     1, Len(packed))

\* 0 is replaced, 3 is beyond the dictionary, 12 and f are no codes.
C23_Witness ==
  /\ Unpacked
  /\ call.arg = << <<"0", ".", "3">>, <<"1", "|", "0">> >>
  /\ call.ret.once = <<"1", ".", "3">>

\* C24 as stated: unpacking the result once more with the same dictionary
\* changes nothing, for every packed text and dictionary.
C24_Idempotent_AsStated ==
  Unpacked => call.ret.twice = call.ret.once

\* The entries of the dictionary that replace a character of the packed text.
Substituted(packed, entries) ==
  {entries[CodeIndex(packed[i]) + 1] :
     i \in {k \in 1..Len(packed) : Isolated(packed, k) /\ CodeIndex(packed[k]) < Len(entries)}}

\* The entry holds no isolated code character that the dictionary would
\* replace by something else.
Settled(entry, entries) ==
  \A i \in 1..Len(entry) : Replacement(entry, entries, i) = <<entry[i]>>

\* C24: unpacking the result once more with the same dictionary changes
\* nothing whenever every entry that replaced a character of the packed
\* text is itself left as it is by the unpacker.
C24_Idempotent ==
  Unpacked =>
    \A entries \in {Split(call.arg[2], <<"|">>)} :
      (\A entry \in Substituted(call.arg[1], entries) : Settled(entry, entries))
        => call.ret.twice = call.ret.once

\* A character replaced by the entry a.b, whose a and b address nothing in
\* a dictionary of four entries.
C24_Witness ==
  /\ Unpacked
  /\ call.arg = << <<"0", ".", "f">>, <<"a", ".", "b", "|", "2", "|", "|", "0">> >>
  /\ call.ret.once = <<"a", ".", "b", ".", "f">>
  /\ call.ret.twice = call.ret.once

\* C25: in every reachable state every job's status is one of pending,
\* downloading, done and error, and its stored progress is an integer
\* from 0 to 100.
C25_StatusAndProgress ==
  \A j \in DOMAIN logs :
    /\ logs[j].status \in {"pending", "downloading", "done", "error"}
    /\ logs[j].progress \in 0..100

\* A running job whose progress is strictly between the two ends.
C25_Witness ==
  \E j \in DOMAIN logs :
    /\ logs[j].status = "downloading"
    /\ logs[j].progress > 0
    /\ logs[j].progress < 100

\* C26: in every reachable state a job has completed_at set if and only if
\* its status is done or error, every done job has progress 100 and a
\* non-empty title, and pending and downloading jobs have no completion time.
C26_Completion ==
  \A j \in DOMAIN logs :
    /\ logs[j].completed_at # None <=> logs[j].status \in {"done", "error"}
    /\ logs[j].status = "done" =>
         logs[j].progress = 100 /\ logs[j].title \notin {None, ""}
    /\ logs[j].status \in {"pending", "downloading"} => logs[j].completed_at = None

\* C27: in every reachable state no job whose status is pending or error
\* has an entry in the result table.
C27_NoEntryUnlessPackaged ==
  \A j \in DOMAIN logs :
    logs[j].status \in {"pending", "error"} => j \notin DOMAIN _job_results
====
